---- MODULE Spec2Model ----
(***************************************************************************)
(* saltapi.APIClient.run: routing of a lowstate record to one of the       *)
(* client wrappers of APIClient.                                           *)
(*                                                                         *)
(* A Python string is a sequence of tokens.  "." and "_" are the           *)
(* separator characters; every other token is an unbroken run of           *)
(* characters ("wheel", "x", ...).  str.split, str.join and str.format are *)
(* computed on these sequences.  A record (dict) is a function from key    *)
(* names to strings.                                                       *)
(***************************************************************************)
EXTENDS Integers, Sequences, FiniteSets, TLC

VARIABLES low, orig, pc, l_fun, f_call, h_args, h_kwargs, calls, backend,
          ret, handlerOut, outcome, round, prev

vars == <<low, orig, pc, l_fun, f_call, h_args, h_kwargs, calls, backend,
          ret, handlerOut, outcome, round, prev>>

(* ------------------------------ bounds --------------------------------- *)

\* longest `fun` string (in tokens) of the enumerated requests
MaxFunLen == 5

\* number of consecutive calls of run on the same record
MaxRuns == 2

(* ------------------------------ strings -------------------------------- *)

FunTokens == {"wheel", "runner", "x", "."}

StrsUpTo(n) == UNION {[1..k -> FunTokens] : k \in 0..n}

\* str.split('.'): '' gives [''], and every '.' starts a new segment
RECURSIVE Split(_)
Split(s) ==
    IF s = <<>> THEN << <<>> >>
    ELSE IF Head(s) = "." THEN << <<>> >> \o Split(Tail(s))
    ELSE LET r == Split(Tail(s)) IN << <<Head(s)>> \o Head(r) >> \o Tail(r)

\* '.'.join(parts)
RECURSIVE Join(_)
Join(parts) ==
    IF parts = <<>> THEN <<>>
    ELSE IF Len(parts) = 1 THEN Head(parts)
    ELSE Head(parts) \o <<".">> \o Join(Tail(parts))

\* '{0}_{1}'.format(a, b)
Format(a, b) == a \o <<"_">> \o b

(* ------------------------------ records -------------------------------- *)

Empty == [k \in {} |-> <<>>]

Put(l, k, v) == [x \in (DOMAIN l) \cup {k} |-> IF x = k THEN v ELSE l[x]]

\* dict.get(k, d)
Get(l, k, d) == IF k \in DOMAIN l THEN l[k] ELSE d

Restrict(l, S) == [x \in (DOMAIN l) \cap S |-> l[x]]

(* --------------------------- client names ------------------------------ *)

sync == <<"sync">>
async == <<"async">>
local_sync_n == <<"local", "_", "sync">>
local_async_n == <<"local", "_", "async">>
local_batch_n == <<"local", "_", "batch">>
runner_sync_n == <<"runner", "_", "sync">>
runner_async_n == <<"runner", "_", "async">>
wheel_sync_n == <<"wheel", "_", "sync">>
wheel_async_n == <<"wheel", "_", "async">>

\* the attributes of an APIClient instance that getattr finds, each with
\* the object it is bound to (aliases share the function they alias)
Attributes ==
    { <<local_async_n, "local_async">>, <<async, "local_async">>,
      <<local_sync_n, "local_sync">>, <<<<"local">>, "local_sync">>,
      <<sync, "local_sync">>,
      <<local_batch_n, "local_batch">>,
      <<runner_sync_n, "runner_sync">>, <<<<"runner">>, "runner_sync">>,
      <<runner_async_n, "runner_sync">>,
      <<wheel_sync_n, "wheel_sync">>, <<<<"wheel">>, "wheel_sync">>,
      <<wheel_async_n, "wheel_sync">>,
      <<<<"run">>, "run">>, <<<<"__init__">>, "__init__">>,
      <<<<"opts">>, "opts">> }

AttrNames == {a[1] : a \in Attributes}

\* getattr(self, name), for a name that is an attribute
GetAttr(name) == (CHOOSE a \in Attributes : a[1] = name)[2]

\* the functions defined as client wrappers
Wrappers == {"local_async", "local_sync", "local_batch", "runner_sync",
             "wheel_sync"}

\* declared positional parameters (after self) of each attribute
Params(f) ==
    CASE f \in {"runner_sync", "wheel_sync"} -> <<"fun">>
      [] f = "run" -> <<"low">>
      [] f = "__init__" -> <<"opts">>
      [] OTHER -> <<>>

\* does the function take **kwargs
TakesKwargs(f) == f \in Wrappers

(* ------------------------------ outcomes ------------------------------- *)

NoOutcome == [kind |-> "none", err |-> "", msg |-> <<>>, val |-> ""]

Returned(v) == [kind |-> "return", err |-> "", msg |-> <<>>, val |-> v]

Raised(e, m) == [kind |-> "raise", err |-> e, msg |-> m, val |-> ""]

ModeMsgSwapped(client, fun) ==
    <<"With fun of \"">> \o client
        \o <<"\", client must be \"sync\" or \"async\" not \"">> \o fun
        \o <<"\".">>

\* 'With fun of "{1}", client must be "sync" or "async" not "{0}".'
\*     .format(low['client'], low['fun'])
ModeMsg(client, fun) ==
    <<"With fun of \"">> \o fun
        \o <<"\", client must be \"sync\" or \"async\" not \"">> \o client
        \o <<"\".">>

AuthMsg == <<"No authentication credentials given">>

\* what a backend client call can return, and what it can raise
RetVals == {"jid", "returns"}
BackendErrors == {"SaltClientError"}

(* ------------------------------ requests ------------------------------- *)

Absent == <<"#absent">>

WithOpt(l, k, o) == IF o = Absent THEN l ELSE Put(l, k, o)

ValueOf(k) ==
    CASE k = "token" -> <<"x">>
      [] k = "eauth" -> <<"pam">>
      [] OTHER -> <<"*">>

Request(c, f, S) ==
    WithOpt(WithOpt([k \in S |-> ValueOf(k)], "client", c), "fun", f)

SampleFuns == { Absent, <<"x", ".", "x">>,
                <<"wheel", ".", "x", ".", "x">>,
                <<"runner", ".", "x", ".", "x">>,
                <<"wheel", ".", "runner", ".", "x", ".", "x">> }

\* every fun string up to MaxFunLen, with the client modes
FunRequests ==
    { Request(c, f, S) :
        c \in {Absent, sync, async, <<"weird">>},
        f \in StrsUpTo(MaxFunLen) \cup {Absent},
        S \in {{}, {"token"}} }

\* every attribute name as client, with every credential combination
ClientRequests ==
    { Request(c, f, S) :
        c \in AttrNames \cup {Absent, <<"weird">>},
        f \in SampleFuns,
        S \in SUBSET {"token", "eauth", "tgt"} }

Requests == FunRequests \cup ClientRequests

(* ------------------------------- run ----------------------------------- *)

NoCall == [args |-> <<>>, kwargs |-> Empty]

Init ==
    /\ low \in Requests
    /\ orig = low
    /\ pc = "l40"
    /\ l_fun = "none"
    /\ f_call = NoCall
    /\ h_args = <<>>
    /\ h_kwargs = Empty
    /\ calls = <<>>
    /\ backend = <<>>
    /\ ret = ""
    /\ handlerOut = NoOutcome
    /\ outcome = NoOutcome
    /\ round = 1
    /\ prev = [client |-> Absent, fun |-> Absent, l_fun |-> "none"]

\* an exception leaves run
Raise(e, m) ==
    /\ outcome' = Raised(e, m)
    /\ pc' = "done"

DefaultModeSync == sync

DefaultMode == async

\* if not 'client' in low: low['client'] = 'async'
DefaultClient ==
    /\ pc = "l40"
    /\ low' = IF "client" \in DOMAIN low THEN low
              ELSE Put(low, "client", DefaultMode)
    /\ pc' = "l45"
    /\ UNCHANGED <<orig, l_fun, f_call, h_args, h_kwargs, calls, backend,
                   ret, handlerOut, outcome, round, prev>>

HasPrefixTwo(funparts) ==
    /\ Len(funparts) > 1
    /\ funparts[1] \in {<<"wheel">>, <<"runner">>}

\* len(funparts) > 2 and funparts[0] in ['wheel', 'runner']
HasPrefix(funparts) ==
    /\ Len(funparts) > 2
    /\ funparts[1] \in {<<"wheel">>, <<"runner">>}

ClientModes == {sync, async}

StripPrefixTwice(funparts) == Join(Tail(Tail(funparts)))

\* '.'.join(funparts[1:])
StripPrefix(funparts) == Join(Tail(funparts))

\* the prefix rule, lines 45-52
PrefixRule ==
    /\ pc = "l45"
    /\ LET funparts == Split(Get(low, "fun", <<>>)) IN
         IF HasPrefix(funparts)
         THEN IF low["client"] \notin ClientModes
              THEN /\ Raise("SaltException", ModeMsg(low["client"], low["fun"]))
                   /\ UNCHANGED low
              ELSE /\ low' = Put(Put(low, "client",
                                     Format(funparts[1], low["client"])),
                                 "fun", StripPrefix(funparts))
                   /\ pc' = "l55"
                   /\ UNCHANGED outcome
         ELSE /\ pc' = "l55"
              /\ UNCHANGED <<low, outcome>>
    /\ UNCHANGED <<orig, l_fun, f_call, h_args, h_kwargs, calls, backend,
                   ret, handlerOut, round, prev>>

HasCredsTruthy(l) == "token" \in DOMAIN l \/ "eauth" # ""

\* 'token' in low or 'eauth' in low
HasCreds(l) == "token" \in DOMAIN l \/ "eauth" \in DOMAIN l

\* the credential check, lines 55-57
CredCheck ==
    /\ pc = "l55"
    /\ IF ~HasCreds(low)
       THEN Raise("EauthAuthenticationError", AuthMsg)
       ELSE pc' = "l59" /\ UNCHANGED outcome
    /\ UNCHANGED <<low, orig, l_fun, f_call, h_args, h_kwargs, calls,
                   backend, ret, handlerOut, round, prev>>

\* l_fun = getattr(self, low['client'])
Resolve ==
    /\ pc = "l59"
    /\ IF low["client"] \in AttrNames
       THEN /\ l_fun' = GetAttr(low["client"])
            /\ pc' = "l60"
            /\ UNCHANGED outcome
       ELSE /\ Raise("AttributeError", low["client"])
            /\ UNCHANGED l_fun
    /\ UNCHANGED <<low, orig, f_call, h_args, h_kwargs, calls, backend,
                   ret, handlerOut, round, prev>>

(* --------------------------- format_call ------------------------------- *)

ParamSet(f) == {Params(f)[i] : i \in DOMAIN Params(f)}

RECURSIVE ArgList(_, _)
ArgList(ps, data) ==
    IF ps = <<>> THEN <<>>
    ELSE (IF Head(ps) \in DOMAIN data THEN <<data[Head(ps)]>> ELSE <<>>)
             \o ArgList(Tail(ps), data)

\* salt.utils.format_call(fun, data): the keys of data that name declared
\* positional parameters go to 'args' in declared order, the other keys
\* (client apart) go to 'kwargs'
FormatCall(f, data) ==
    [args |-> ArgList(Params(f), data),
     kwargs |-> Restrict(data, (DOMAIN data) \ (ParamSet(f) \cup {"client"}))]

FormatCallStepPop ==
    /\ pc = "l60"
    /\ f_call' = FormatCall(l_fun, low)
    /\ low' = Restrict(low, (DOMAIN low) \ {"client"})
    /\ pc' = "l62"
    /\ UNCHANGED <<orig, l_fun, h_args, h_kwargs, calls, backend, ret,
                   handlerOut, outcome, round, prev>>

\* f_call = salt.utils.format_call(l_fun, low)
FormatCallStep ==
    /\ pc = "l60"
    /\ f_call' = FormatCall(l_fun, low)
    /\ pc' = "l62"
    /\ UNCHANGED <<low, orig, l_fun, h_args, h_kwargs, calls, backend, ret,
                   handlerOut, outcome, round, prev>>

(* ------------------------------ the call ------------------------------- *)

\* self.opts is a dict, every other attribute is a bound method
Callable(f) == f # "opts"

\* can f(*a, **kw) bind its parameters
Bindable(f, a, kw) ==
    /\ Len(a) <= Len(Params(f)) \/ Params(f) = <<>>
    /\ \A i \in DOMAIN Params(f) :
          (i <= Len(a)) # (Params(f)[i] \in DOMAIN kw)
    /\ TakesKwargs(f) \/ (DOMAIN kw) \subseteq ParamSet(f)

\* the values of the declared parameters after binding
BoundArgs(f, a, kw) ==
    IF Params(f) = <<>> THEN a
    ELSE [i \in DOMAIN Params(f) |->
             IF i <= Len(a) THEN a[i] ELSE kw[Params(f)[i]]]

\* ret = l_fun(*f_call.get('args', ()), **f_call.get('kwargs', {})),
\* up to the entry of the wrapper
Call ==
    /\ pc = "l62"
    /\ IF ~Callable(l_fun) \/ ~Bindable(l_fun, f_call.args, f_call.kwargs)
       THEN /\ Raise("TypeError", <<l_fun>>)
            /\ UNCHANGED <<h_args, h_kwargs, calls>>
       ELSE /\ l_fun \in Wrappers
            /\ h_args' = BoundArgs(l_fun, f_call.args, f_call.kwargs)
            /\ h_kwargs' = Restrict(f_call.kwargs,
                                    (DOMAIN f_call.kwargs) \ ParamSet(l_fun))
            /\ calls' = Append(calls, [fn |-> l_fun, args |-> h_args',
                                       kwargs |-> h_kwargs'])
            /\ pc' = "body"
            /\ UNCHANGED outcome
    /\ UNCHANGED <<low, orig, l_fun, f_call, backend, ret, handlerOut,
                   round, prev>>

BackendCall(m, a, kw, d) == [method |-> m, args |-> a, kwargs |-> kw, data |-> d]

\* local.run_job(*args, **kwargs)
local_async ==
    /\ pc = "body" /\ l_fun = "local_async"
    /\ backend' = Append(backend,
                     BackendCall("LocalClient.run_job", h_args, h_kwargs, Empty))
    /\ pc' = "backend"
    /\ UNCHANGED <<low, orig, l_fun, f_call, h_args, h_kwargs, calls, ret,
                   handlerOut, outcome, round, prev>>

\* local.cmd(*args, **kwargs)
local_sync ==
    /\ pc = "body" /\ l_fun = "local_sync"
    /\ backend' = Append(backend,
                     BackendCall("LocalClient.cmd", h_args, h_kwargs, Empty))
    /\ pc' = "backend"
    /\ UNCHANGED <<low, orig, l_fun, f_call, h_args, h_kwargs, calls, ret,
                   handlerOut, outcome, round, prev>>

\* local.cmd_batch(*args, **kwargs)
local_batch ==
    /\ pc = "body" /\ l_fun = "local_batch"
    /\ backend' = Append(backend,
                     BackendCall("LocalClient.cmd_batch", h_args, h_kwargs, Empty))
    /\ pc' = "backend"
    /\ UNCHANGED <<low, orig, l_fun, f_call, h_args, h_kwargs, calls, ret,
                   handlerOut, outcome, round, prev>>

\* runner.low(fun, kwargs)
runner_sync ==
    /\ pc = "body" /\ l_fun = "runner_sync"
    /\ backend' = Append(backend,
                     BackendCall("RunnerClient.low", h_args, Empty, h_kwargs))
    /\ pc' = "backend"
    /\ UNCHANGED <<low, orig, l_fun, f_call, h_args, h_kwargs, calls, ret,
                   handlerOut, outcome, round, prev>>

\* kwargs['fun'] = fun; wheel.master_call(**kwargs)
wheel_sync ==
    /\ pc = "body" /\ l_fun = "wheel_sync"
    /\ h_kwargs' = Put(h_kwargs, "fun", h_args[1])
    /\ backend' = Append(backend,
                     BackendCall("Wheel.master_call", <<>>, h_kwargs', Empty))
    /\ pc' = "backend"
    /\ UNCHANGED <<low, orig, l_fun, f_call, h_args, calls, ret,
                   handlerOut, outcome, round, prev>>

\* the backend call returns v, and the wrapper returns it
BackendReturn(v) ==
    /\ pc = "backend"
    /\ handlerOut' = Returned(v)
    /\ ret' = v
    /\ pc' = "l63"
    /\ UNCHANGED <<low, orig, l_fun, f_call, h_args, h_kwargs, calls,
                   backend, outcome, round, prev>>

BackendRaiseRetry(e) ==
    /\ pc = "backend"
    /\ handlerOut' = Raised(e, <<>>)
    /\ IF Len(calls) < 2
       THEN pc' = "l62" /\ UNCHANGED outcome
       ELSE Raise(e, <<>>)
    /\ UNCHANGED <<low, orig, l_fun, f_call, h_args, h_kwargs, calls,
                   backend, ret, round, prev>>

\* the backend call raises e, which leaves the wrapper and run
BackendRaise(e) ==
    /\ pc = "backend"
    /\ handlerOut' = Raised(e, <<>>)
    /\ Raise(e, <<>>)
    /\ UNCHANGED <<low, orig, l_fun, f_call, h_args, h_kwargs, calls,
                   backend, ret, round, prev>>

ReturnNone ==
    /\ pc = "l63"
    /\ outcome' = Returned("None")
    /\ pc' = "done"
    /\ UNCHANGED <<low, orig, l_fun, f_call, h_args, h_kwargs, calls,
                   backend, ret, handlerOut, round, prev>>

\* return ret
Return ==
    /\ pc = "l63"
    /\ outcome' = Returned(ret)
    /\ pc' = "done"
    /\ UNCHANGED <<low, orig, l_fun, f_call, h_args, h_kwargs, calls,
                   backend, ret, handlerOut, round, prev>>

\* the caller passes the same record to run once more
RunAgain ==
    /\ pc = "done"
    /\ round < MaxRuns
    /\ round' = round + 1
    /\ prev' = [client |-> Get(low, "client", Absent),
                fun |-> Get(low, "fun", Absent),
                l_fun |-> l_fun]
    /\ orig' = low
    /\ pc' = "l40"
    /\ l_fun' = "none"
    /\ f_call' = NoCall
    /\ h_args' = <<>>
    /\ h_kwargs' = Empty
    /\ calls' = <<>>
    /\ backend' = <<>>
    /\ ret' = ""
    /\ handlerOut' = NoOutcome
    /\ outcome' = NoOutcome
    /\ UNCHANGED low

Next ==
    \/ DefaultClient
    \/ PrefixRule
    \/ CredCheck
    \/ Resolve
    \/ FormatCallStep
    \/ Call
    \/ local_async
    \/ local_sync
    \/ local_batch
    \/ runner_sync
    \/ wheel_sync
    \/ \E v \in RetVals : BackendReturn(v)
    \/ \E e \in BackendErrors : BackendRaise(e)
    \/ Return
    \/ RunAgain

Spec == Init /\ [][Next]_vars

(* ------------------------------ properties ----------------------------- *)

\* the request as run received it
OrigFun == Get(orig, "fun", <<>>)
OrigClient == Get(orig, "client", <<"async">>)
OrigHasCreds == "token" \in DOMAIN orig \/ "eauth" \in DOMAIN orig

Dots(f) == Cardinality({i \in DOMAIN f : f[i] = "."})

\* '<prefix>.<name...>' with prefix wheel or runner and two more segments
PrefixedFun(f) ==
    /\ f # Absent
    /\ Len(f) >= 2
    /\ f[1] \in {"wheel", "runner"}
    /\ f[2] = "."
    /\ Dots(f) >= 2

Modes == {<<"sync">>, <<"async">>}

HandlerNames ==
    { <<"local", "_", "sync">>, <<"local", "_", "async">>,
      <<"local", "_", "batch">>, <<"runner", "_", "sync">>,
      <<"runner", "_", "async">>, <<"wheel", "_", "sync">>,
      <<"wheel", "_", "async">>, <<"sync">>, <<"async">>, <<"local">>,
      <<"runner">>, <<"wheel">> }

FunHandlerNames ==
    { <<"runner", "_", "sync">>, <<"runner", "_", "async">>,
      <<"wheel", "_", "sync">>, <<"wheel", "_", "async">>,
      <<"runner">>, <<"wheel">> }

InvalidMode == PrefixedFun(OrigFun) /\ OrigClient \notin Modes

RunErrors == {"SaltException", "EauthAuthenticationError", "AttributeError"}

\* C1 (as stated): a request with neither token nor eauth always ends in
\* the authentication-required error, whatever client and fun are.
C1_AuthAlways ==
    (pc = "done" /\ ~OrigHasCreds)
        => outcome = Raised("EauthAuthenticationError", AuthMsg)

\* C1 (amended): a request with neither token nor eauth ends in the
\* authentication-required error, except that a prefixed fun with a client
\* other than sync/async ends in the invalid-client-mode error; no handler
\* is invoked either way.
C1_AuthUnlessInvalidMode ==
    (pc = "done" /\ ~OrigHasCreds)
        => /\ calls = <<>>
           /\ outcome.kind = "raise"
           /\ outcome.err = IF InvalidMode THEN "SaltException"
                            ELSE "EauthAuthenticationError"

C1_Witness ==
    /\ pc = "done" /\ ~OrigHasCreds /\ PrefixedFun(OrigFun)
    /\ outcome.err = "EauthAuthenticationError"

\* C2: a prefixed fun with client sync or async (after defaulting) is
\* resolved to client '<prefix>_<client>' and to the fun with the prefix
\* segment and its dot removed.
C2_PrefixRewrite ==
    (PrefixedFun(OrigFun) /\ OrigClient \in Modes /\ pc \notin {"l40", "l45"})
        => /\ low["client"] = <<OrigFun[1], "_">> \o OrigClient
           /\ <<OrigFun[1], ".">> \o low["fun"] = OrigFun

C2_Witness ==
    /\ pc = "done" /\ PrefixedFun(OrigFun) /\ OrigClient = <<"sync">>
    /\ OrigFun[1] = "wheel"
    /\ l_fun = "wheel_sync" /\ outcome.kind = "return"

\* C3: a prefixed fun with a client that is present and neither sync nor
\* async ends in the invalid-client-mode error, whose message names the
\* client and the fun; client and fun are not rewritten and no handler is
\* invoked.
C3_InvalidClientMode ==
    (PrefixedFun(OrigFun) /\ "client" \in DOMAIN orig
                          /\ orig["client"] \notin Modes)
        => /\ low = orig
           /\ calls = <<>> /\ backend = <<>> /\ l_fun = "none"
           /\ pc \in {"l40", "l45", "done"}
           /\ pc = "done" =>
                /\ outcome.kind = "raise" /\ outcome.err = "SaltException"
                /\ LET f == orig["fun"]
                       c == orig["client"]
                       m == outcome.msg
                   IN /\ Len(m) = Len(f) + Len(c) + 3
                      /\ SubSeq(m, 2, 1 + Len(f)) = f
                      /\ SubSeq(m, 3 + Len(f), 2 + Len(f) + Len(c)) = c

C3_Witness ==
    /\ pc = "done" /\ PrefixedFun(OrigFun) /\ OrigHasCreds
    /\ "client" \in DOMAIN orig /\ orig["client"] = <<"weird">>
    /\ outcome.err = "SaltException"

\* C4 (as stated): whatever run dispatches to is one of the twelve
\* handlers, and a request with credentials whose resolved client is not
\* one of the twelve names ends in the unknown-client error.
C4_OnlyHandlers ==
    /\ pc \in {"l60", "l62", "body", "backend", "l63"} => l_fun \in Wrappers
    /\ (pc = "done" /\ OrigHasCreds /\ ~InvalidMode
                    /\ low["client"] \notin HandlerNames)
          => outcome = Raised("AttributeError", low["client"])

\* C5: a request without a client key gets client 'async' first; with
\* credentials a fun without prefix goes to local_async (run_job), and a
\* prefixed fun resolves to '<prefix>_async'.
C5_DefaultAsync ==
    ("client" \notin DOMAIN orig)
        => /\ pc # "l40" => "client" \in DOMAIN low
           /\ pc = "l45" =>
                /\ low["client"] = <<"async">>
                /\ DOMAIN low = (DOMAIN orig) \cup {"client"}
                /\ \A k \in DOMAIN orig : low[k] = orig[k]
           /\ (pc = "done" /\ OrigHasCreds /\ ~PrefixedFun(OrigFun)) =>
                /\ Len(calls) = 1 /\ calls[1].fn = "local_async"
                /\ Len(backend) = 1
                /\ backend[1].method = "LocalClient.run_job"
           /\ (pc \notin {"l40", "l45"} /\ PrefixedFun(OrigFun)) =>
                low["client"] = <<OrigFun[1], "_", "async">>

C5_Witness ==
    /\ pc = "done" /\ "client" \notin DOMAIN orig /\ OrigHasCreds
    /\ OrigFun = <<"x", ".", "x">>
    /\ Len(calls) = 1 /\ calls[1].fn = "local_async"
    /\ outcome.kind = "return"

\* C6: once a handler has been invoked, the outcome of run is the outcome
\* of that handler, value or error, and the handler is invoked once.
C6_PassThrough ==
    /\ Len(calls) <= 1
    /\ (pc = "done" /\ calls # <<>>)
          => /\ handlerOut # NoOutcome
             /\ outcome = handlerOut

C6_Witness ==
    /\ pc = "done" /\ Len(calls) = 1
    /\ outcome.kind = "raise" /\ outcome = handlerOut

\* the three checks of run, on the request as received and as resolved
PassesChecks ==
    /\ ~InvalidMode
    /\ OrigHasCreds
    /\ low["client"] \in HandlerNames

\* C7 (as stated): at most one handler and one backend call per run;
\* exactly one when the mode check, the credential check and the handler
\* resolution pass, none when run fails with one of its three errors.
C7_ExactlyOne ==
    /\ Len(calls) <= 1 /\ Len(backend) <= 1
    /\ (pc = "done" /\ PassesChecks) => Len(calls) = 1
    /\ (pc = "done" /\ outcome.err \in RunErrors) => calls = <<>>

\* C7 (amended): as stated, with exactly one handler when, besides the
\* three checks, the record holds the `fun` that a runner or wheel handler
\* declares; without it the call fails before the handler is entered.
C7_ExactlyOneIfBound ==
    /\ Len(calls) <= 1 /\ Len(backend) <= 1
    /\ (pc = "done" /\ PassesChecks
          /\ (low["client"] \in FunHandlerNames => "fun" \in DOMAIN low))
          => Len(calls) = 1 /\ Len(backend) = 1
    /\ (pc = "done" /\ PassesChecks
          /\ low["client"] \in FunHandlerNames /\ "fun" \notin DOMAIN low)
          => calls = <<>> /\ backend = <<>> /\ outcome.kind = "raise"
    /\ (pc = "done" /\ outcome.err \in RunErrors)
          => calls = <<>> /\ backend = <<>>

C7_Witness ==
    /\ pc = "done" /\ PassesChecks /\ l_fun = "runner_sync"
    /\ Len(calls) = 1 /\ Len(backend) = 1
    /\ backend[1].method = "RunnerClient.low"

\* C8: once run has resolved a handler, no step of run or of the wrappers
\* writes the record.
C8_RecordFrozen == [][(l_fun \in Wrappers) => (low' = low)]_vars

C8_Witness ==
    /\ pc = "done" /\ l_fun = "wheel_sync" /\ Len(backend) = 1
    /\ "fun" \in DOMAIN backend[1].kwargs
    /\ "tgt" \in DOMAIN low /\ low = orig

\* C10 (as stated): a second run on the record a first run rewrote
\* resolves the same client, fun and handler, and does not fail with the
\* invalid-client-mode error.
C10_Idempotent ==
    (round >= 2 /\ prev.l_fun \in Wrappers /\ pc = "done")
        => /\ outcome.err # "SaltException"
           /\ l_fun = prev.l_fun
           /\ low["client"] = prev.client
           /\ Get(low, "fun", Absent) = prev.fun

\* C10 (amended): the second run resolves the same client, fun and
\* handler when the fun the first run left is not itself prefixed; when it
\* is, the second run fails with the invalid-client-mode error.
C10_IdempotentUnlessPrefixed ==
    (round >= 2 /\ prev.l_fun \in Wrappers /\ pc = "done")
        => IF PrefixedFun(prev.fun)
           THEN outcome.kind = "raise" /\ outcome.err = "SaltException"
           ELSE /\ outcome.err # "SaltException"
                /\ l_fun = prev.l_fun
                /\ low["client"] = prev.client
                /\ Get(low, "fun", Absent) = prev.fun

C10_Witness ==
    /\ round = 2 /\ pc = "done"
    /\ prev.client = <<"wheel", "_", "sync">>
    /\ prev.fun = <<"x", ".", "wheel">>
    /\ l_fun = "wheel_sync" /\ outcome.kind = "return"

====
